---- MODULE Spec2Model ----
(***************************************************************************)
(* Model of src/src/schema.js: the schema Node hierarchy (string, number,  *)
(* any, maybe, object, oneOf, ref), the Context / NullContext error        *)
(* plumbing and the oneOf error disambiguation (optimizeOneOfError).       *)
(*                                                                         *)
(* JavaScript values, messages and nodes are records; a key is a sequence  *)
(* of one-letter strings so that the edit distance can be computed.        *)
(***************************************************************************)
EXTENDS Integers, Sequences, FiniteSets, TLC

VARIABLES
  node,     \* RefNode.node of the one ref() of the schema universe
  schema,   \* the schema under validation
  input,    \* the raw value under validation
  result    \* outcome of the latest schema.validate(context)

vars == <<node, schema, input, result>>

(***************************************************************************)
(* Bounds                                                                  *)
(***************************************************************************)
MaxAlts == 2      \* alternatives of a generated oneOf
MaxKeys == 2      \* entries of a generated input object

(***************************************************************************)
(* JavaScript values                                                       *)
(***************************************************************************)
Str(s) == [t |-> "string", v |-> s]
Num(s) == [t |-> "number", v |-> s]
Null == [t |-> "null", v |-> "null"]
Undefined == [t |-> "undefined", v |-> "undefined"]
Entry(k, val) == [k |-> k, val |-> val]
Obj(entries) == [t |-> "object", entries |-> entries]

\* value == null
IsNullish(value) == value.t \in {"null", "undefined"}

typeOf(value) == value.t

\* obj[key], undefined when the key is missing
RECURSIVE Lookup(_, _)
Lookup(entries, key) ==
  IF entries = <<>> THEN Undefined
  ELSE IF Head(entries).k = key THEN Head(entries).val
  ELSE Lookup(Tail(entries), key)

HasKey(entries, key) == \E i \in 1..Len(entries) : entries[i].k = key

\* obj[key] = val: in place for a key the object has, appended otherwise
Assign(entries, key, val) ==
  IF HasKey(entries, key)
  THEN [i \in 1..Len(entries) |->
          IF entries[i].k = key THEN Entry(key, val) ELSE entries[i]]
  ELSE Append(entries, Entry(key, val))

\* assert.deepStrictEqual on decoded values: key order is irrelevant
RECURSIVE DeepEqual(_, _)
DeepEqual(x, y) ==
  IF x.t # y.t THEN FALSE
  ELSE IF x.t # "object" THEN x = y
  ELSE /\ {e.k : e \in {x.entries[i] : i \in 1..Len(x.entries)}}
            = {e.k : e \in {y.entries[i] : i \in 1..Len(y.entries)}}
       /\ \A i \in 1..Len(x.entries) :
            DeepEqual(x.entries[i].val, Lookup(y.entries, x.entries[i].k))

(***************************************************************************)
(* Messages                                                                *)
(***************************************************************************)
NoKey == <<>>
NoText == [msg |-> "", key |-> NoKey, hint |-> NoKey, a |-> "", b |-> ""]
Text(msg, key, hint, a, b) == [msg |-> msg, key |-> key, hint |-> hint, a |-> a, b |-> b]

\* a plain string message
Leaf(text) == [kind |-> "Leaf", id |-> <<>>, text |-> text, children |-> <<>>]
\* new Message(null, children); id is the identity of the object
Message(id, children) == [kind |-> "Message", id |-> id, text |-> NoText, children |-> children]
\* new AlternativeMessage(alternatives)
AlternativeMessage(id, alternatives) ==
  [kind |-> "Alternative", id |-> id, text |-> NoText, children |-> alternatives]

IsMessage(m) == m.kind \in {"Message", "Alternative"}

\* message(null, x): wraps a list of lines, returns a Message unchanged
message(id, lines) == Message(id, lines)

\* a === b: strings by value, objects by identity
Identical(a, b) == a = b


\* sameMessage(a, b): structural equality that ignores object identity
RECURSIVE sameMessage(_, _)
sameMessage(a, b) ==
  IF Identical(a, b) THEN TRUE
  ELSE IF IsMessage(a)
  THEN /\ IsMessage(b)
       /\ a.text = b.text
       /\ Len(a.children) = Len(b.children)
       /\ \A idx \in 1..Len(a.children) : sameMessage(a.children[idx], b.children[idx])
  ELSE FALSE

(***************************************************************************)
(* Contexts.  A context is summarised by the value it wraps and by the     *)
(* messages error() collects from it and its ancestors, innermost first.   *)
(***************************************************************************)
Context(value, messages) == [nullContext |-> FALSE, value |-> value, messages |-> messages]

\* new NullContext(message, parent)
NullContext(msg, parent) ==
  [nullContext |-> TRUE, value |-> Undefined, messages |-> <<msg>> \o parent.messages]

\* the top-level context built by validate(schema, value)
RootContext(value) == Context(value, <<>>)

\* the per-entry contexts buildMapping hands to its visitor
ValueContext(parent, e) ==
  Context(e.val, <<Leaf(Text("While validating value at key", e.k, NoKey, "", ""))>>
                   \o parent.messages)
KeyContext(parent, e) ==
  Context([t |-> "key", k |-> e.k],
          <<Leaf(Text("While validating key", e.k, NoKey, "", ""))>> \o parent.messages)

\* the value a Context wraps
rawValue(context) == context.value

\* the value unwrap hands to its callback: undefined in a NullContext
unwrap(context) == IF context.nullContext THEN Undefined ELSE rawValue(context)

\* whether buildMapping of a Context accepts the value it wraps
IsMapping(value) == value.t = "object"

\* context.buildMessage(originalMessage, contextMessages)
buildMessage(context, originalMessage) == originalMessage

\* validationError(originalMessage, contextMessages).messages
validationError(originalMessage, contextMessages) == <<originalMessage>> \o contextMessages

\* the messages of the ValidationError thrown by context.error(originalMessage)
error(context, originalMessage) ==
  validationError(buildMessage(context, originalMessage), context.messages)

(***************************************************************************)
(* Outcomes of validate: a result, a ValidationError or another fault.     *)
(* calls logs every Node.validate invocation made on the way, errors is    *)
(* the errors array of OneOfNode.validate when it returned or threw, seen  *)
(* is RefNode.node at the time of the call.                                *)
(***************************************************************************)
Call(path, self, context) == [path |-> path, self |-> self, context |-> context]

Ok(value, calls) ==
  [kind |-> "ok", value |-> value, messages |-> <<>>, fault |-> "",
   calls |-> calls, errors |-> <<>>, seen |-> [type |-> "null"]]
Throw(messages, calls) ==
  [kind |-> "ValidationError", value |-> Undefined, messages |-> messages, fault |-> "",
   calls |-> calls, errors |-> <<>>, seen |-> [type |-> "null"]]
Fault(what, calls) ==
  [kind |-> "Error", value |-> Undefined, messages |-> <<>>, fault |-> what,
   calls |-> calls, errors |-> <<>>, seen |-> [type |-> "null"]]
NoResult ==
  [kind |-> "none", value |-> Undefined, messages |-> <<>>, fault |-> "",
   calls |-> <<>>, errors |-> <<>>, seen |-> [type |-> "null"]]

(***************************************************************************)
(* levenshtein-edit-distance                                               *)
(***************************************************************************)
Min2(x, y) == IF x <= y THEN x ELSE y

RECURSIVE levenshtein(_, _)
levenshtein(a, b) ==
  IF a = <<>> THEN Len(b)
  ELSE IF b = <<>> THEN Len(a)
  ELSE Min2(Min2(levenshtein(Tail(a), b) + 1, levenshtein(a, Tail(b)) + 1),
            levenshtein(Tail(a), Tail(b)) + (IF Head(a) = Head(b) THEN 0 ELSE 1))

(***************************************************************************)
(* Nodes                                                                   *)
(***************************************************************************)
string == [type |-> "string"]
number == [type |-> "number"]
any == [type |-> "any"]
ref == [type |-> "ref"]
maybe(valueNode) == [type |-> "maybe", valueNode |-> valueNode]
Field(k, n) == [k |-> k, node |-> n]
ObjectNode(values, defaults, allowExtra) ==
  [type |-> "object", values |-> values, defaults |-> defaults, allowExtra |-> allowExtra]
object(values, defaults) == ObjectNode(values, defaults, FALSE)
partialObject(values, defaults) == ObjectNode(values, defaults, TRUE)
oneOf(nodes) == [type |-> "oneOf", nodes |-> nodes]

\* RefNode.node before ref.set
NullNode == [type |-> "null"]

\* this.values[key] === undefined
Declared(self, key) == \E i \in 1..Len(self.values) : self.values[i].k = key
FieldIndex(self, key) == CHOOSE i \in 1..Len(self.values) : self.values[i].k = key

\* ObjectNode._guessSuggestion: sortBy is stable, so the first declared name
\* of least distance is taken; with no declared name, suggestion.distance
\* is read off undefined and a TypeError is thrown
_guessSuggestion(self, key) ==
  IF self.values = <<>> THEN [typeError |-> TRUE, suggestion |-> NoKey]
  ELSE LET distance(i) == levenshtein(self.values[i].k, key)
           best == CHOOSE i \in 1..Len(self.values) :
                     /\ \A j \in 1..Len(self.values) : distance(i) <= distance(j)
                     /\ \A j \in 1..(i - 1) : distance(j) > distance(i)
       IN  IF distance(best) = Len(key)
           THEN [typeError |-> FALSE, suggestion |-> NoKey]
           ELSE [typeError |-> FALSE, suggestion |-> self.values[best].k]

(***************************************************************************)
(* The oneOf failure path                                                  *)
(***************************************************************************)
Reverse(s) == [i \in 1..Len(s) |-> s[Len(s) + 1 - i]]

RECURSIVE flatten(_)
flatten(ss) == IF ss = <<>> THEN <<>> ELSE Head(ss) \o flatten(Tail(ss))

RECURSIVE MaxOf(_)
MaxOf(ws) ==
  IF Len(ws) = 1 THEN Head(ws)
  ELSE LET m == MaxOf(Tail(ws)) IN IF Head(ws) >= m THEN Head(ws) ELSE m

\* a JavaScript array as seen by instanceof / Array.isArray
JsArray(items) == [kind |-> "Array", items |-> items]

explode(variations, rest) == [i \in 1..Len(variations) |-> <<variations[i]>> \o rest]

\* weightMessage applied to the first message of a chain
weightFirstMessage(msg) ==
  IF msg.kind = "Array"
  THEN IF IsMessage(msg.items[1]) THEN Len(msg.items[1].children) ELSE 1
  ELSE 1

weightMessage(msg) ==
  IF IsMessage(msg) THEN Len(msg.children)
  ELSE IF msg.kind = "Array" THEN Len(msg.items)
  ELSE 1

\* lines[i] of a JavaScript array (0-based i), undefined past its end
UndefinedLine == [kind |-> "undefined", id |-> <<>>, text |-> NoText, children |-> <<>>]
At(lines, i) == IF i < Len(lines) THEN lines[i + 1] ELSE UndefinedLine

\* the while loop that collects the lines all sections have in common
RECURSIVE CollectSame(_, _, _)
CollectSame(sections, i, same) ==
  IF \A s \in 1..Len(sections) : At(sections[s], i) = UndefinedLine THEN same
  ELSE IF \A s \in 1..Len(sections) : Identical(At(sections[s], i), At(sections[1], i))
       THEN CollectSame(sections, i + 1, <<At(sections[1], i)>> \o same)
       ELSE CollectSame(sections, i + 1, same)

\* the forEach that keeps one of every group of sameMessage sections
RECURSIVE CollectAlternatives(_, _)
CollectAlternatives(sections, alternatives) ==
  IF sections = <<>> THEN alternatives
  ELSE IF \E a \in 1..Len(alternatives) : sameMessage(alternatives[a], Head(sections))
       THEN CollectAlternatives(Tail(sections), alternatives)
       ELSE CollectAlternatives(Tail(sections), Append(alternatives, Head(sections)))

\* optimizeOneOfError(errors) with its locals; id names the messages it creates
optimizeOneOfError(errors, id) ==
  LET exploded == flatten([e \in 1..Len(errors) |->
                     IF errors[e][1].kind = "Alternative"
                     THEN explode(errors[e][1].children, Tail(errors[e]))
                     ELSE <<errors[e]>>])
      maxWeight == MaxOf([s \in 1..Len(exploded) |-> weightMessage(JsArray(exploded[s]))])
      Heaviest(section) == weightMessage(JsArray(section)) = maxWeight
      kept == SelectSeq(exploded, Heaviest)
      reversed == [s \in 1..Len(kept) |-> Reverse(kept[s])]
      same == CollectSame(reversed, 0, <<>>)
      rests == [s \in 1..Len(reversed) |->
                  message(id \o <<s>>,
                          Reverse(SubSeq(reversed[s], Len(same) + 1, Len(reversed[s]))))]
      alternatives == CollectAlternatives(rests, <<>>)
  IN  [exploded |-> exploded, kept |-> kept, same |-> same, rests |-> rests,
       alternatives |-> alternatives,
       messages |-> IF Len(kept) = 1
                    THEN validationError(kept[1][1], Tail(kept[1]))
                    ELSE validationError(AlternativeMessage(id, alternatives), same)]

(***************************************************************************)
(* Node.validate                                                           *)
(***************************************************************************)
After(calls, r) == [r EXCEPT !.calls = calls \o @]

\* this.valueNode.validate(context), the whole ValidateResult
DelegatedResult(r) == Obj(<<Entry(<<"v", "a", "l", "u", "e">>, r.value)>>)

\* this.valueNode.validate(context).value
DelegatedValue(r) == r.value

ExpectedType(context, type) ==
  error(context, Leaf(Text("Expected value of type", NoKey, NoKey, type,
                           typeOf(unwrap(context)))))

\* NullContext.buildMapping
NullContextBuildMapping(context) ==
  error(context, Leaf(Text("Expected a mapping value but got", NoKey, NoKey, "", "undefined")))

\* buildMapping of a Context whose value is no mapping
ContextBuildMappingRefused(context) ==
  error(context, Leaf(Text("Expected a mapping value but got", NoKey, NoKey, "",
                           typeOf(rawValue(context)))))

\* the NullContext ObjectNode.validate builds for a field without a value
MissingContext(context, key) ==
  NullContext(buildMessage(context, Leaf(Text("While validating missing value for key",
                                              key, NoKey, "", ""))),
              context)

RECURSIVE validate(_, _, _), buildMappingObject(_, _, _, _, _, _),
          fillMissing(_, _, _, _, _, _), tryNodes(_, _, _, _, _, _)

validate(self, context, path) ==
  LET me == <<Call(path, self, context)>> IN
  CASE self.type \in {"string", "number"} ->
         IF typeOf(unwrap(context)) # self.type
         THEN Throw(ExpectedType(context, self.type), me)
         ELSE Ok(unwrap(context), me)
    [] self.type = "any" ->
         IF IsNullish(unwrap(context))
         THEN Throw(error(context, Leaf(Text("Expected a value but got", NoKey, NoKey,
                                             "", typeOf(unwrap(context))))), me)
         ELSE Ok(unwrap(context), me)
    [] self.type = "maybe" ->
         IF IsNullish(unwrap(context)) THEN Ok(unwrap(context), me)
         ELSE LET r == validate(self.valueNode, context, path \o <<1>>) IN
              IF r.kind = "ok" THEN Ok(DelegatedValue(r), me \o r.calls)
              ELSE After(me, r)
    [] self.type = "ref" ->
         IF node = NullNode THEN Fault("Trying to validate with an unitialized ref", me)
         ELSE After(me, validate(node, context, path \o <<1>>))
    [] self.type = "object" ->
         IF context.nullContext THEN Throw(NullContextBuildMapping(context), me)
         ELSE IF ~IsMapping(rawValue(context))
         THEN Throw(ContextBuildMappingRefused(context), me)
         ELSE buildMappingObject(self, context, path, 1, <<>>, me)
    [] self.type = "oneOf" -> tryNodes(self, context, path, 1, <<>>, me)

\* ObjectNode.validate, the visitor of buildMapping from entry i on
buildMappingObject(self, context, path, i, value, calls) ==
  IF i > Len(rawValue(context).entries)
  THEN fillMissing(self, context, path, 1, value, calls)
  ELSE LET e == rawValue(context).entries[i] IN
       IF ~Declared(self, e.k)
       THEN IF ~self.allowExtra
            THEN LET guess == _guessSuggestion(self, e.k) IN
                 IF guess.typeError
                 THEN Fault("TypeError: Cannot read property 'distance' of undefined", calls)
                 ELSE IF guess.suggestion # NoKey
                 THEN Throw(error(KeyContext(context, e),
                                  Leaf(Text("Unexpected key, did you mean", e.k,
                                            guess.suggestion, "", ""))), calls)
                 ELSE Throw(error(KeyContext(context, e),
                                  Leaf(Text("Unexpected key", e.k, NoKey, "", ""))), calls)
            ELSE buildMappingObject(self, context, path, i + 1,
                                    Assign(value, e.k, e.val), calls)
       ELSE LET f == FieldIndex(self, e.k)
                r == validate(self.values[f].node, ValueContext(context, e), path \o <<f>>)
            IN  IF r.kind # "ok" THEN After(calls, r)
                ELSE buildMappingObject(self, context, path, i + 1,
                                        Assign(value, e.k, r.value), calls \o r.calls)

\* ObjectNode.validate running the field's Node on a default before taking it
fillMissingValidated(self, context, path, j, value, calls) ==
  IF j > Len(self.values) THEN Ok(Obj(value), calls)
  ELSE LET key == self.values[j].k IN
       IF Lookup(value, key) # Undefined
       THEN fillMissing(self, context, path, j + 1, value, calls)
       ELSE LET r == validate(self.values[j].node,
                              IF Lookup(self.defaults, key) = Undefined
                              THEN MissingContext(context, key)
                              ELSE ValueContext(context,
                                                Entry(key, Lookup(self.defaults, key))),
                              path \o <<j>>)
            IN  IF r.kind # "ok" THEN After(calls, r)
                ELSE fillMissing(self, context, path, j + 1,
                                 IF r.value # Undefined THEN Assign(value, key, r.value)
                                 ELSE value,
                                 calls \o r.calls)

\* ObjectNode.validate, the loop over the declared fields from field j on
fillMissing(self, context, path, j, value, calls) ==
  IF j > Len(self.values) THEN Ok(Obj(value), calls)
  ELSE LET key == self.values[j].k IN
       IF Lookup(value, key) # Undefined
       THEN fillMissing(self, context, path, j + 1, value, calls)
       ELSE IF Lookup(self.defaults, key) = Undefined
       THEN LET r == validate(self.values[j].node, MissingContext(context, key),
                              path \o <<j>>)
            IN  IF r.kind # "ok" THEN After(calls, r)
                ELSE fillMissing(self, context, path, j + 1,
                                 IF r.value # Undefined THEN Assign(value, key, r.value)
                                 ELSE value,
                                 calls \o r.calls)
       ELSE fillMissing(self, context, path, j + 1,
                        Assign(value, key, Lookup(self.defaults, key)), calls)

\* OneOfNode.validate returning the last alternative that succeeds
tryNodesLastMatch(self, context, path, i, errors, calls) ==
  IF i > Len(self.nodes)
  THEN IF errors = <<>> THEN Fault("Impossible happened", calls)
       ELSE [Throw(optimizeOneOfError(errors, path).messages, calls) EXCEPT !.errors = errors]
  ELSE LET r == validate(self.nodes[i], context, path \o <<i>>)
           later == tryNodes(self, context, path, i + 1, errors, calls \o r.calls)
       IN  IF r.kind = "ok"
           THEN IF i < Len(self.nodes) /\ later.kind = "ok" THEN later
                ELSE [After(calls, r) EXCEPT !.errors = errors]
           ELSE IF r.kind = "ValidationError"
           THEN tryNodes(self, context, path, i + 1, Append(errors, r.messages),
                         calls \o r.calls)
           ELSE [After(calls, r) EXCEPT !.errors = errors]

\* OneOfNode.validate catching every error, not only ValidationError
tryNodesCatchAll(self, context, path, i, errors, calls) ==
  IF i > Len(self.nodes)
  THEN IF errors = <<>> THEN Fault("Impossible happened", calls)
       ELSE [Throw(optimizeOneOfError(errors, path).messages, calls) EXCEPT !.errors = errors]
  ELSE LET r == validate(self.nodes[i], context, path \o <<i>>) IN
       IF r.kind = "ok" THEN [After(calls, r) EXCEPT !.errors = errors]
       ELSE IF r.kind = "ValidationError"
       THEN tryNodes(self, context, path, i + 1, Append(errors, r.messages), calls \o r.calls)
       ELSE tryNodes(self, context, path, i + 1, errors, calls \o r.calls)

\* OneOfNode.validate, the loop from alternative i on
tryNodes(self, context, path, i, errors, calls) ==
  IF i > Len(self.nodes)
  THEN IF errors = <<>> THEN Fault("Impossible happened", calls)
       ELSE [Throw(optimizeOneOfError(errors, path).messages, calls) EXCEPT !.errors = errors]
  ELSE LET r == validate(self.nodes[i], context, path \o <<i>>) IN
       IF r.kind = "ok" THEN [After(calls, r) EXCEPT !.errors = errors]
       ELSE IF r.kind = "ValidationError"
       THEN tryNodes(self, context, path, i + 1, Append(errors, r.messages), calls \o r.calls)
       ELSE [After(calls, r) EXCEPT !.errors = errors]

(***************************************************************************)
(* The schemas and raw values the model validates                          *)
(***************************************************************************)
KA == <<"a">>
KB == <<"b">>
KC == <<"c">>
KABC == <<"a", "b", "c">>

FieldNodes == {string, number, maybe(string)}
DefaultValues == {Str("ok"), Num("1")}
InputValues == {Str("ok"), Num("1"), Null}

DeclaredKeyLists == {<<>>, <<KA>>, <<KB>>, <<KA, KB>>, <<KABC>>}

Present(e) == e.val # Undefined

ObjectNodes ==
  UNION {{ObjectNode([i \in 1..Len(ks) |-> Field(ks[i], ns[i])],
                     SelectSeq([i \in 1..Len(ks) |-> Entry(ks[i], ds[i])], Present),
                     allowExtra) :
            ns \in [1..Len(ks) -> FieldNodes],
            ds \in [1..Len(ks) -> DefaultValues \cup {Undefined}],
            allowExtra \in BOOLEAN} : ks \in DeclaredKeyLists}

MaybeNodes == {maybe(n) : n \in {string, number, any, ref, object(<<Field(KA, string)>>, <<>>)}}

AltNodes ==
  {string, ref,
   object(<<Field(KA, string)>>, <<>>),
   object(<<Field(KB, string)>>, <<>>),
   object(<<Field(KA, string), Field(KB, number)>>, <<Entry(KA, Str("ok"))>>),
   object(<<Field(KB, number)>>, <<Entry(KB, Num("1"))>>),
   oneOf(<<string, number>>),
   oneOf(<<object(<<Field(KA, number)>>, <<>>), object(<<Field(KB, number)>>, <<>>)>>)}

OneOfNodes == UNION {{oneOf(ns) : ns \in [1..n -> AltNodes]} : n \in 1..MaxAlts}

Schemas == {string, number, any, ref} \cup MaybeNodes \cup ObjectNodes \cup OneOfNodes

RefTargets == {string, number}

InputKeyLists == {<<>>, <<KA>>, <<KB>>, <<KC>>, <<KA, KB>>, <<KB, KA>>, <<KA, KC>>,
                  <<KA, KB, KC>>}

ObjectInputs ==
  UNION {{Obj([i \in 1..Len(ks) |-> Entry(ks[i], vs[i])]) :
            vs \in [1..Len(ks) -> InputValues]} :
         ks \in {l \in InputKeyLists : Len(l) <= MaxKeys}}

Inputs == {Str("ok"), Num("1"), Null, Undefined} \cup ObjectInputs

(***************************************************************************)
(* The state machine: a schema and a raw value are fixed, ref.set and      *)
(* validate are called in any order.                                       *)
(***************************************************************************)
Init ==
  /\ node = NullNode
  /\ schema \in Schemas
  /\ input \in Inputs
  /\ result = NoResult

RECURSIVE UsesRef(_)
\* the schema holds the ref
UsesRef(n) ==
  CASE n.type = "ref" -> TRUE
    [] n.type = "maybe" -> UsesRef(n.valueNode)
    [] n.type = "object" -> \E j \in 1..Len(n.values) : UsesRef(n.values[j].node)
    [] n.type = "oneOf" -> \E i \in 1..Len(n.nodes) : UsesRef(n.nodes[i])
    [] OTHER -> FALSE

\* RefNode.set(n), on the ref of the schema
set(n) ==
  /\ UsesRef(schema)
  /\ node' = n
  /\ UNCHANGED <<schema, input, result>>

\* validate(schema, input): schema.validate(new Context(input))
Validate ==
  /\ result' = [validate(schema, RootContext(input), <<>>) EXCEPT !.seen = node]
  /\ UNCHANGED <<node, schema, input>>

Next ==
  \/ \E n \in RefTargets : set(n)
  \/ Validate

Spec == Init /\ [][Next]_vars

(***************************************************************************)
(* Properties                                                              *)
(***************************************************************************)
\* result is the outcome of validating with the ref as it is now
Fresh == result.kind # "none" /\ result.seen = node

\* the outcome of alternative i of a top-level oneOf on its own
Alt(i) == validate(schema.nodes[i], RootContext(input), <<i>>)

DirectCall(c) == Len(c.path) = 1
\* the validate calls made directly by the top-level node, in order
Attempts == SelectSeq(result.calls, DirectCall)

AttemptedExactly(n) ==
  /\ Len(Attempts) = n
  /\ \A i \in 1..n : /\ Attempts[i].path = <<i>>
                     /\ Attempts[i].self = schema.nodes[i]
                     /\ Attempts[i].context = RootContext(input)

\* C1: when some alternative of a oneOf succeeds and the alternatives before
\* the first such one fail with ValidationErrors, validate returns the value
\* of that alternative, has tried exactly the alternatives up to it, in
\* order and on the same context, and no error surfaces.
OneOfFirstMatch ==
  (Fresh /\ schema.type = "oneOf") =>
    \A w \in 1..Len(schema.nodes) :
      (/\ Alt(w).kind = "ok"
       /\ \A j \in 1..(w - 1) : Alt(j).kind = "ValidationError")
      => /\ result.kind = "ok"
         /\ result.value = Alt(w).value
         /\ result.messages = <<>>
         /\ AttemptedExactly(w)

\* a oneOf whose two alternatives both accept the input with different values
OneOfFirstMatchWitness ==
  /\ Fresh /\ schema.type = "oneOf" /\ Len(schema.nodes) = 2
  /\ Alt(1).kind = "ok" /\ Alt(2).kind = "ok"
  /\ Alt(1).value # Alt(2).value
  /\ result.kind = "ok" /\ result.value = Alt(1).value

\* a oneOf whose first alternative fails with a ValidationError and whose
\* second one succeeds
OneOfSecondMatchReached ==
  /\ Fresh /\ schema.type = "oneOf" /\ Len(schema.nodes) = 2
  /\ Alt(1).kind = "ValidationError" /\ Alt(2).kind = "ok"
  /\ result.kind = "ok"

\* C5: validating through a ref that was never set raises a fault that is
\* not a ValidationError; a oneOf whose alternative raises such a fault
\* rethrows it at once: no later alternative is tried and no merged
\* ValidationError is built.
OneOfPropagatesFault ==
  Fresh =>
    /\ \A c \in 1..Len(result.calls) :
         (result.calls[c].self.type = "ref" /\ node = NullNode)
         => /\ result.kind = "Error"
            /\ result.fault = "Trying to validate with an unitialized ref"
            /\ c = Len(result.calls)
    /\ schema.type = "oneOf" =>
         \A f \in 1..Len(schema.nodes) :
           (/\ Alt(f).kind = "Error"
            /\ \A j \in 1..(f - 1) : Alt(j).kind = "ValidationError")
           => /\ result.kind = "Error"
              /\ result.fault = Alt(f).fault
              /\ result.messages = <<>>
              /\ AttemptedExactly(f)

\* oneOf(ref, T) with the ref unset on an input T accepts
OneOfPropagatesFaultWitness ==
  /\ Fresh /\ schema.type = "oneOf" /\ Len(schema.nodes) = 2
  /\ schema.nodes[1].type = "ref" /\ node = NullNode
  /\ Alt(2).kind = "ok"
  /\ result.kind = "Error"

\* the outcome of the declared field f of a top-level object on entry e
FieldOutcome(f, e) ==
  validate(schema.values[f].node, ValueContext(RootContext(input), e), <<f>>)

\* every entry of the input is accepted and every declared field that has
\* neither a value nor a default accepts the absent value
AcceptedButForDefaults ==
  /\ \A i \in 1..Len(input.entries) :
       IF Declared(schema, input.entries[i].k)
       THEN FieldOutcome(FieldIndex(schema, input.entries[i].k), input.entries[i]).kind = "ok"
       ELSE schema.allowExtra
  /\ \A j \in 1..Len(schema.values) :
       (/\ ~HasKey(input.entries, schema.values[j].k)
        /\ Lookup(schema.defaults, schema.values[j].k) = Undefined)
       => validate(schema.values[j].node,
                   MissingContext(RootContext(input), schema.values[j].k), <<j>>).kind = "ok"

\* C2: a declared field that the input lacks and that has a default is in
\* the result with that default, its Node is never run (on the default or on
\* anything else), and whether validation succeeds does not depend on the
\* default: no message of a failure is about that field.
DefaultsAreTrusted ==
  (Fresh /\ schema.type = "object" /\ input.t = "object") =>
    /\ result.kind = "ok" <=> AcceptedButForDefaults
    /\ \A j \in 1..Len(schema.values) :
         LET key == schema.values[j].k
             default == Lookup(schema.defaults, key)
         IN  (~HasKey(input.entries, key) /\ default # Undefined) =>
               /\ \A c \in 1..Len(result.calls) : result.calls[c].path # <<j>>
               /\ result.kind = "ok" => Lookup(result.value.entries, key) = default
               /\ \A m \in 1..Len(result.messages) : result.messages[m].text.key # key

\* a default its field's Node rejects is in the result of a successful validation
DefaultsAreTrustedWitness ==
  /\ Fresh /\ schema.type = "object" /\ input.t = "object"
  /\ result.kind = "ok"
  /\ \E j \in 1..Len(schema.values) :
       LET key == schema.values[j].k
           default == Lookup(schema.defaults, key)
       IN  /\ ~HasKey(input.entries, key)
           /\ default # Undefined
           /\ FieldOutcome(j, Entry(key, default)).kind = "ValidationError"
           /\ Lookup(result.value.entries, key) = default

\* C3: maybe(T) on a null or absent value succeeds with null without
\* running T, in a Context and in a NullContext; on any other value its
\* outcome is the outcome of T on the same context.
MaybeNullOrDelegates ==
  Fresh =>
    \A c \in 1..Len(result.calls) :
      LET call == result.calls[c]
          out == validate(call.self, call.context, call.path)
          inner == validate(call.self.valueNode, call.context, call.path \o <<1>>)
      IN  call.self.type = "maybe" =>
            IF IsNullish(unwrap(call.context))
            THEN out.kind = "ok" /\ out.value = Null /\ Len(out.calls) = 1
            ELSE /\ out.kind = inner.kind /\ out.value = inner.value
                 /\ out.messages = inner.messages /\ out.fault = inner.fault

\* C4: with allowExtra = false the first undeclared key of the input, when
\* the entries before it are accepted, makes validate raise a ValidationError
\* on the key context: "did you mean" exactly when the least edit distance to
\* a declared name is less than the length of the key, the plain form
\* otherwise, also when no name is declared.
UnexpectedKeyDiagnostic ==
  (Fresh /\ schema.type = "object" /\ ~schema.allowExtra /\ input.t = "object") =>
    \A u \in 1..Len(input.entries) :
      LET e == input.entries[u]
          distances == {levenshtein(schema.values[i].k, e.k) : i \in 1..Len(schema.values)}
          suggested == \E d \in distances : d < Len(e.k)
      IN  (/\ ~Declared(schema, e.k)
           /\ \A i \in 1..(u - 1) :
                /\ Declared(schema, input.entries[i].k)
                /\ FieldOutcome(FieldIndex(schema, input.entries[i].k),
                                input.entries[i]).kind = "ok")
          => /\ result.kind = "ValidationError"
             /\ Len(result.messages) = 2
             /\ result.messages[2] = KeyContext(RootContext(input), e).messages[1]
             /\ result.messages[1].text.key = e.k
             /\ result.messages[1].text.msg =
                  IF suggested THEN "Unexpected key, did you mean" ELSE "Unexpected key"

\* the nodes the ref delegated to during the validation that gave r
Delegates(r) ==
  {r.calls[c + 1].self : c \in {i \in 1..(Len(r.calls) - 1) : r.calls[i].self.type = "ref"}}

\* C6: once ref.set(n) has been called, the node the ref delegates to stays
\* n: no later ref.set changes it and every later validation through the
\* ref delegates to n.
RefSingleAssignment ==
  [][node # NullNode =>
       /\ node' = node
       /\ (result' # result => Delegates(result') \subseteq {node})]_vars

RECURSIVE NoDefaults(_)
\* no object node of the schema declares a default
NoDefaults(n) ==
  CASE n.type = "object" ->
         /\ n.defaults = <<>>
         /\ \A j \in 1..Len(n.values) : NoDefaults(n.values[j].node)
    [] n.type = "maybe" -> NoDefaults(n.valueNode)
    [] n.type = "oneOf" -> \A i \in 1..Len(n.nodes) : NoDefaults(n.nodes[i])
    [] OTHER -> TRUE

\* the outcome of validating the decoded value again
Revalidated == validate(schema, RootContext(result.value), <<>>)

\* C7: a decoded value that validates against the same schema validates to
\* a deeply equal value, for every schema, oneOf over objects with defaults
\* included.
Idempotent ==
  (Fresh /\ result.kind = "ok" /\ Revalidated.kind = "ok")
  => DeepEqual(Revalidated.value, result.value)

\* C7 (amended): a decoded value that validates against the same schema
\* validates to a deeply equal value when no object node of the schema
\* declares a default.
IdempotentWithoutDefaults ==
  (Fresh /\ result.kind = "ok" /\ Revalidated.kind = "ok" /\ NoDefaults(schema))
  => DeepEqual(Revalidated.value, result.value)

\* an object decoded by the second alternative of a oneOf without defaults,
\* validated again
IdempotentWithoutDefaultsWitness ==
  /\ Fresh /\ schema.type = "oneOf" /\ NoDefaults(schema) /\ Len(schema.nodes) = 2
  /\ input.t = "object" /\ input.entries # <<>>
  /\ Alt(1).kind = "ValidationError"
  /\ result.kind = "ok"
  /\ Revalidated.kind = "ok"

\* every alternative of a top-level oneOf failed with a ValidationError
AllFailed == Fresh /\ schema.type = "oneOf" /\ result.kind = "ValidationError"

\* the locals of optimizeOneOfError in the validation that gave result
Opt == optimizeOneOfError(result.errors, <<>>)

BranchingFactor(chain) == IF IsMessage(chain[1]) THEN Len(chain[1].children) ELSE 1

Largest(ns) == CHOOSE n \in ns : \A m \in ns : m <= n

\* C9: the candidates kept are exactly those whose first message has the
\* largest branching factor: the child count of a Message, 1 for a string.
KeptByBranchingFactor ==
  AllFailed =>
    LET opt == Opt
        most == Largest({BranchingFactor(opt.exploded[c]) : c \in 1..Len(opt.exploded)})
        Widest(chain) == BranchingFactor(chain) = most
    IN  opt.kept = SelectSeq(opt.exploded, Widest)

\* C9 (amended): the candidates are the chains of the alternatives' errors,
\* a nested Alternative replaced by one chain per branch; those kept are
\* exactly the ones with the most messages, and a single one kept is the
\* error raised.
KeptByChainLength ==
  AllFailed =>
    LET opt == Opt
        longest == Largest({Len(opt.exploded[c]) : c \in 1..Len(opt.exploded)})
        Longest(chain) == Len(chain) = longest
        Exploded(chain) == chain[1].kind = "Alternative"
    IN  /\ opt.kept = SelectSeq(opt.exploded, Longest)
        /\ Len(opt.kept) = 1 => result.messages = opt.kept[1]
        /\ Len(opt.kept) > 1 => result.messages[1].kind = "Alternative"
        /\ \A c \in 1..Len(opt.exploded) : opt.exploded[c][1].kind # "Alternative"
        /\ Len(SelectSeq(result.errors, Exploded)) = 0 => opt.exploded = result.errors

\* a nested Alternative is exploded and shorter candidates are discarded
KeptByChainLengthWitness ==
  /\ AllFailed
  /\ \E e \in 1..Len(result.errors) : result.errors[e][1].kind = "Alternative"
  /\ Len(Opt.exploded) > Len(result.errors)
  /\ Len(Opt.kept) < Len(Opt.exploded)
  /\ \E c \in 1..Len(Opt.exploded) :
       /\ BranchingFactor(Opt.exploded[c]) > BranchingFactor(Opt.kept[1])
       /\ Len(Opt.exploded[c]) < Len(Opt.kept[1])

\* the kept chains, outermost message first
Outermost == [s \in 1..Len(Opt.kept) |-> Reverse(Opt.kept[s])]

AgreeAt(chains, i) ==
  \A s \in 1..Len(chains) : i <= Len(chains[s]) /\ Identical(chains[s][i], chains[1][i])

\* the length of the longest prefix the chains share
CommonPrefix(chains) ==
  CHOOSE p \in 0..Len(chains[1]) :
    /\ \A i \in 1..p : AgreeAt(chains, i)
    /\ ~AgreeAt(chains, p + 1)

\* C10: with two or more chains kept, the common context is the longest
\* prefix the chains share, outermost first, and what is stripped from each
\* chain is that prefix.
SameIsCommonPrefix ==
  (AllFailed /\ Len(Opt.kept) >= 2) =>
    LET p == CommonPrefix(Outermost) IN
    /\ Opt.same = Reverse(SubSeq(Outermost[1], 1, p))
    /\ \A s \in 1..Len(Opt.kept) :
         Opt.rests[s].children = Reverse(SubSeq(Outermost[s], p + 1, Len(Outermost[s])))

SameChain(x, y) ==
  /\ Len(x) = Len(y)
  /\ \A i \in 1..Len(x) : sameMessage(x[i], y[i])

\* C8: with two or more chains kept, the error raised is one Alternative
\* followed by the shared context; every branch followed by the shared
\* context is a kept chain, every kept chain is a branch followed by the
\* shared context, and no two branches are structurally equal.
MergedAlternative ==
  (AllFailed /\ Len(Opt.kept) >= 2) =>
    /\ result.messages[1].kind = "Alternative"
    /\ \A m \in 2..Len(result.messages) : result.messages[m].kind # "Alternative"
    /\ LET branches == result.messages[1].children
           shared == Tail(result.messages)
       IN  /\ \A b \in 1..Len(branches) : \E k \in 1..Len(Opt.kept) :
                 SameChain(branches[b].children \o shared, Opt.kept[k])
           /\ \A k \in 1..Len(Opt.kept) : \E b \in 1..Len(branches) :
                 SameChain(branches[b].children \o shared, Opt.kept[k])
           /\ \A b1, b2 \in 1..Len(branches) :
                 b1 # b2 => ~sameMessage(branches[b1], branches[b2])
====
